---- MODULE Spec2Model ----
(***************************************************************************)
(* Cross-region ride handoff: the 2PC coordinator (services/coordinator.py)*)
(* driving the regional participants (services/phoenix_api.py), and the    *)
(* script-style handoff of repo_harshith/two_phase_coordinator.py with its *)
(* transaction log (repo_harshith/global_coordinator.py).                  *)
(***************************************************************************)
EXTENDS Integers, Sequences, FiniteSets, TLC

\* ------------------------------------------------------------------------
\* Bounds
\* ------------------------------------------------------------------------
MaxHandoffs == 2        \* concurrent POST /handoff requests
MaxRuns == 2            \* successive two_phase_handoff() runs
MaxCalls == 4           \* requests served in the participant-level specification
MaxLen == 2             \* rides in one region's answer to a search
MaxTimestamp == 2       \* distinct ride timestamps
MaxLimit == 3           \* RideQuery.limit
MaxWrites == 3          \* regional writes made while the change streams are watched

\* ------------------------------------------------------------------------
\* Values
\* ------------------------------------------------------------------------
REGIONAL_APIS == {"Phoenix", "Los Angeles"}
RideIds == {"R-1"}
Tasks == 1..MaxHandoffs
Runs == 1..MaxRuns
Null == "null"

\* A ride document; the three transaction fields are the ones of RideResponse.
Doc(id, city, locked, tx, hs) ==
    [rideId |-> id, city |-> city, status |-> "IN_PROGRESS",
     locked |-> locked, transaction_id |-> tx, handoff_status |-> hs]
NoRide == Doc(Null, Null, FALSE, Null, Null)

VARIABLES
    rides,          \* region -> sequence of ride documents (natural order)
    ptx,            \* region -> tx_id -> that transaction's participant records,
                    \* in insertion order (every query on the collection is by tx_id)
    txlog,          \* coordinator's transactions collection (global database)
    health,         \* HealthMonitor.health_status
    task,           \* POST /handoff request handlers (one coordinator each)
    rides0,         \* the ride stores before any handoff ran
    rp,             \* direct clients of a participant: calls made so far,
                    \* prepare and create handlers between their read and
                    \* their write,
                    \* ride_data snapshots returned by prepare

    gc,             \* GlobalCoordinator: tx_id -> history of statuses (<<>>: no record)
    run,            \* two_phase_handoff() runs: position and locals of each
    qr,             \* one QueryRouter.search call with scope global-live
    cs              \* change replication: the regional ride collections by _id,
                    \* their change feeds, and the GLOBAL rides collection

vars == <<rides, ptx, txlog, health, task, rides0, rp, gc, run, cs, qr>>

\* ------------------------------------------------------------------------
\* Collection helpers (pymongo semantics: first match in natural order)
\* ------------------------------------------------------------------------
RECURSIVE FirstIdx(_, _, _)
FirstIdx(s, P(_), i) ==
    IF i > Len(s) THEN 0
    ELSE IF P(s[i]) THEN i ELSE FirstIdx(s, P, i + 1)

find_one(s, P(_)) ==
    LET i == FirstIdx(s, P, 1) IN IF i = 0 THEN NoRide ELSE s[i]

update_one(s, P(_), F(_)) ==
    LET i == FirstIdx(s, P, 1) IN
    IF i = 0 THEN s ELSE [s EXCEPT ![i] = F(s[i])]

delete_one(s, P(_)) ==
    LET i == FirstIdx(s, P, 1) IN
    IF i = 0 THEN s
    ELSE SubSeq(s, 1, i - 1) \o SubSeq(s, i + 1, Len(s))

insert_one(s, d) == Append(s, d)

Docs(s) == {s[i] : i \in 1..Len(s)}
HasRide(s, id) == \E i \in 1..Len(s) : s[i].rideId = id

\* ------------------------------------------------------------------------
\* Regional participant: /2pc/prepare, /2pc/commit, /2pc/abort
\* ------------------------------------------------------------------------
TxRec(tx_id, ride_id, operation, state) ==
    [tx_id |-> tx_id, ride_id |-> ride_id, operation |-> operation, state |-> state]

\* prepare_transaction, DELETE branch, up to the first store write: the
\* find_one and the two checks made on its result.
PrepareFind(s, ride_id) == find_one(s, LAMBDA d : d.rideId = ride_id)

PrepareVote(ride) ==
    IF ride = NoRide THEN "ABORT"
    ELSE IF ride.locked THEN "ABORT"
    ELSE "COMMIT"

PrepareReason(ride) ==
    IF ride = NoRide THEN "not found"
    ELSE IF ride.locked THEN "locked"
    ELSE Null

\* prepare_transaction, DELETE branch: "Lock the ride" (update_one by rideId).
PrepareLock_no_status(s, ride_id, tx_id) ==
    update_one(s, LAMBDA d : d.rideId = ride_id,
               LAMBDA d : [d EXCEPT !.locked = TRUE,
                                    !.transaction_id = tx_id])

PrepareLock(s, ride_id, tx_id) ==
    update_one(s, LAMBDA d : d.rideId = ride_id,
               LAMBDA d : [d EXCEPT !.locked = TRUE,
                                    !.transaction_id = tx_id,
                                    !.handoff_status = "PREPARING"])

\* prepare_transaction: "Save transaction state" (both branches).
PrepareRecord(p, tx_id, ride_id, operation) ==
    [p EXCEPT ![tx_id] = insert_one(@, TxRec(tx_id, ride_id, operation, "PREPARED"))]

\* commit_transaction, DELETE branch: "Delete the ride".
CommitDelete(s, ride_id, tx_id) ==
    delete_one(s, LAMBDA d : d.rideId = ride_id)

\* commit_transaction, INSERT branch: "Insert the ride" when ride_data is given.
CommitInsert(s, ride_data) ==
    IF ride_data # NoRide THEN insert_one(s, ride_data) ELSE s

\* commit_transaction: "Update transaction state".
CommitRecord(p, tx_id) ==
    [p EXCEPT ![tx_id] = update_one(@, LAMBDA t : t.tx_id = tx_id,
                                    LAMBDA t : [t EXCEPT !.state = "COMMITTED"])]

\* abort_transaction: "Find transaction".
AbortFind(p, tx_id) == find_one(p[tx_id], LAMBDA t : t.tx_id = tx_id)

\* abort_transaction: "Unlock ride if it was locked".
AbortRides(s, p, tx_id) ==
    LET tx == AbortFind(p, tx_id) IN
    IF tx # NoRide /\ tx.operation = "DELETE"
    THEN update_one(s, LAMBDA d : d.transaction_id = tx_id,
                    LAMBDA d : [d EXCEPT !.locked = FALSE,
                                         !.transaction_id = Null,
                                         !.handoff_status = Null])
    ELSE s

\* An abort that writes a new ABORTED record on every call.
AbortRecord_insert(p, tx_id) ==
    [p EXCEPT ![tx_id] = insert_one(@, TxRec(tx_id, Null, "DELETE", "ABORTED"))]

\* abort_transaction: "Mark transaction as aborted".
AbortRecord(p, tx_id) ==
    IF AbortFind(p, tx_id) # NoRide
    THEN [p EXCEPT ![tx_id] = update_one(@, LAMBDA t : t.tx_id = tx_id,
                                         LAMBDA t : [t EXCEPT !.state = "ABORTED"])]
    ELSE p

\* ------------------------------------------------------------------------
\* Coordinator: HealthMonitor, initiate_handoff, TwoPhaseCommitCoordinator
\* ------------------------------------------------------------------------
\* How one HTTP call of the coordinator ends:
\*   ok       delivered, handled, reply received with status 200
\*   lost     delivered and handled, but the reply never arrives (the call raises)
\*   raise    transport error or timeout before delivery (the call raises)
\*   refused  answered without effect: an HTTP error code, or the handler's
\*            first store operation raised (prepare then answers vote ABORT,
\*            commit answers status ABORTED, abort answers 500)
Outcomes == {"ok", "lost", "raise", "refused"}
Applied(o) == o \in {"ok", "lost"}
Raises(o) == o \in {"lost", "raise"}

\* A health check that never reports a region down.
is_healthy_always(region) == TRUE

\* HealthMonitor.is_healthy
is_healthy(region) == health[region]

\* _commit_target: "Update ride data with new city".
CommitRideData(ride_data, target) ==
    IF ride_data # NoRide
    THEN [ride_data EXCEPT !.city = target,
                           !.handoff_status = "COMPLETED",
                           !.locked = FALSE,
                           !.transaction_id = Null]
    ELSE ride_data

\* str(uuid.uuid4()): the transaction id allocated for the c-th request.
TxId(c) == "tx-" \o ToString(c)
TxIds == {TxId(c) : c \in Tasks}

\* One POST /handoff request: the coordinator's fields (ride_id, source,
\* target, ride_data), the response (status, reason, latency_ms), the
\* participant handler's local `ride` while a source prepare is in progress,
\* free0: the ride was present and unlocked at the source on admission, and
\* crashed_at: where the coordinator was when its process died, if it did.
IdleTask ==
    [pc |-> "idle", ride_id |-> Null, source |-> Null, target |-> Null,
     ride |-> NoRide, ride_data |-> NoRide, status |-> Null, reason |-> Null,
     latency_ms |-> Null, free0 |-> FALSE, crashed_at |-> Null]

Return(c, status, reason) ==
    task' = [task EXCEPT ![c].pc = "done", ![c].status = status,
                         ![c].reason = reason, ![c].ride = NoRide,
                         ![c].latency_ms = "measured"]

Goto(c, pc) == task' = [task EXCEPT ![c].pc = pc, ![c].ride = NoRide]

\* HealthMonitor._monitor_loop: one probe of one region.
monitor_loop(region, is_up) ==
    /\ health' = [health EXCEPT ![region] = is_up]
    /\ UNCHANGED <<rides, ptx, txlog, task, rides0, rp, gc, run, cs, qr>>

\* A HandoffRequest model without the validator: every pair passes.
source_and_target_may_be_equal(source, target) == TRUE

\* HandoffRequest.source_and_target_must_differ: the request body parses
\* only when the two regions differ.
source_and_target_must_differ(source, target) == source # target

\* initiate_handoff: admission; the tx_id of task c is c (uuid4 is fresh).
initiate_handoff(c, ride_id, source, target) ==
    /\ task[c].pc = "idle"
    /\ \A b \in Tasks : b < c => task[b].pc # "idle"
    /\ source_and_target_must_differ(source, target)
    /\ IF ~is_healthy(target)
       THEN task' = [task EXCEPT ![c] = [IdleTask EXCEPT
                        !.pc = "done", !.ride_id = ride_id, !.source = source,
                        !.target = target, !.status = "BUFFERED",
                        !.reason = "unavailable", !.latency_ms = "0.0",
                        !.free0 = PrepareVote(PrepareFind(rides[source], ride_id)) = "COMMIT"]]
       ELSE task' = [task EXCEPT ![c] = [IdleTask EXCEPT
                        !.pc = "prepare_source", !.ride_id = ride_id,
                        !.source = source, !.target = target,
                        !.free0 = PrepareVote(PrepareFind(rides[source], ride_id)) = "COMMIT"]]
    /\ UNCHANGED <<rides, ptx, txlog, health, rides0, rp, gc, run, cs, qr>>

\* _prepare_source, first half: the request reaches the source participant,
\* which reads the ride (find_one) and votes ABORT at once or goes on to lock.
prepare_source_find(c, o) ==
    LET t == task[c]
        ride == PrepareFind(rides[t.source], t.ride_id) IN
    /\ t.pc = "prepare_source"
    /\ IF Applied(o) /\ PrepareVote(ride) = "COMMIT"
       THEN task' = [task EXCEPT ![c].pc = "prepare_source_lock", ![c].ride = ride]
       ELSE Return(c, "ABORTED", "Source region aborted transaction")
    /\ UNCHANGED <<rides, ptx, txlog, health, rides0, rp, gc, run, cs, qr>>

\* _prepare_source, second half: the participant locks the ride, records the
\* transaction and answers COMMIT with the snapshot it read.
prepare_source_lock(c, o) ==
    LET t == task[c] IN
    /\ t.pc = "prepare_source_lock"
    /\ o \in {"ok", "lost"}
    /\ rides' = [rides EXCEPT ![t.source] = PrepareLock(@, t.ride_id, TxId(c))]
    /\ ptx' = [ptx EXCEPT ![t.source] = PrepareRecord(@, TxId(c), t.ride_id, "DELETE")]
    /\ IF o = "ok"
       THEN task' = [task EXCEPT ![c].pc = "prepare_target",
                                 ![c].ride_data = t.ride, ![c].ride = NoRide]
       ELSE Return(c, "ABORTED", "Source region aborted transaction")
    /\ UNCHANGED <<txlog, health, rides0, rp, gc, run, cs, qr>>

\* A coordinator that reads the health table again before the target
\* prepare and answers BUFFERED when the target is marked unhealthy.
prepare_target_recheck_health(c, o) ==
    LET t == task[c] IN
    /\ t.pc = "prepare_target"
    /\ IF ~is_healthy(t.target)
       THEN /\ Return(c, "BUFFERED", "unavailable")
            /\ UNCHANGED ptx
       ELSE /\ ptx' = [ptx EXCEPT ![t.target] =
                        IF Applied(o) THEN PrepareRecord(@, TxId(c), t.ride_id, "INSERT")
                        ELSE @]
            /\ IF o = "ok" THEN Goto(c, "commit_source") ELSE Goto(c, "abort_source")
    /\ UNCHANGED <<rides, txlog, health, rides0, rp, gc, run, cs, qr>>

\* An execute that goes on to the commit phase whatever the target voted.
prepare_target_ignore_vote(c, o) ==
    LET t == task[c] IN
    /\ t.pc = "prepare_target"
    /\ ptx' = [ptx EXCEPT ![t.target] =
                 IF Applied(o) THEN PrepareRecord(@, TxId(c), t.ride_id, "INSERT") ELSE @]
    /\ Goto(c, "commit_source")
    /\ UNCHANGED <<rides, txlog, health, rides0, rp, gc, run, cs, qr>>

\* _prepare_target and the branch of execute that follows it.
prepare_target(c, o) ==
    LET t == task[c] IN
    /\ t.pc = "prepare_target"
    /\ ptx' = [ptx EXCEPT ![t.target] =
                 IF Applied(o) THEN PrepareRecord(@, TxId(c), t.ride_id, "INSERT") ELSE @]
    /\ IF o = "ok" THEN Goto(c, "commit_source") ELSE Goto(c, "abort_source")
    /\ UNCHANGED <<rides, txlog, health, rides0, rp, gc, run, cs, qr>>

\* _commit_source: every failure is logged and swallowed.
commit_source_wait_healthy(c, o) ==
    LET t == task[c] IN
    /\ t.pc = "commit_source"
    /\ is_healthy(t.source)
    /\ rides' = [rides EXCEPT ![t.source] =
                   IF Applied(o) THEN CommitDelete(@, t.ride_id, TxId(c)) ELSE @]
    /\ ptx' = [ptx EXCEPT ![t.source] = IF Applied(o) THEN CommitRecord(@, TxId(c)) ELSE @]
    /\ Goto(c, "commit_target")
    /\ UNCHANGED <<txlog, health, rides0, rp, gc, run, cs, qr>>

\* A commit phase that rolls back when the source commit fails.
commit_source_rollback(c, o) ==
    LET t == task[c] IN
    /\ t.pc = "commit_source"
    /\ rides' = [rides EXCEPT ![t.source] =
                   IF Applied(o) THEN CommitDelete(@, t.ride_id, TxId(c)) ELSE @]
    /\ ptx' = [ptx EXCEPT ![t.source] = IF Applied(o) THEN CommitRecord(@, TxId(c)) ELSE @]
    /\ IF o = "ok" THEN Goto(c, "commit_target") ELSE Goto(c, "abort_source")
    /\ UNCHANGED <<txlog, health, rides0, rp, gc, run, cs, qr>>

commit_source(c, o) ==
    LET t == task[c] IN
    /\ t.pc = "commit_source"
    /\ rides' = [rides EXCEPT ![t.source] =
                   IF Applied(o) THEN CommitDelete(@, t.ride_id, TxId(c)) ELSE @]
    /\ ptx' = [ptx EXCEPT ![t.source] = IF Applied(o) THEN CommitRecord(@, TxId(c)) ELSE @]
    /\ Goto(c, "commit_target")
    /\ UNCHANGED <<txlog, health, rides0, rp, gc, run, cs, qr>>

\* _log_transaction: insert_one into the coordinator's transactions
\* collection; a failed insert is logged and swallowed.
log_transaction(log, tx_id, status, inserted) ==
    IF inserted THEN log \cup {[tx_id |-> tx_id, status |-> status]} ELSE log

\* _commit_target (every failure is logged and swallowed), followed by the
\* end of execute: _log_transaction("SUCCESS") and the SUCCESS response.
commit_target(c, o, inserted) ==
    LET t == task[c]
        data == CommitRideData(t.ride_data, t.target) IN
    /\ t.pc = "commit_target"
    /\ rides' = [rides EXCEPT ![t.target] =
                   IF Applied(o) THEN CommitInsert(@, data) ELSE @]
    /\ ptx' = [ptx EXCEPT ![t.target] = IF Applied(o) THEN CommitRecord(@, TxId(c)) ELSE @]
    /\ txlog' = log_transaction(txlog, TxId(c), "SUCCESS", inserted)
    /\ task' = [task EXCEPT ![c].pc = "done", ![c].status = "SUCCESS",
                            ![c].reason = Null, ![c].latency_ms = "measured",
                            ![c].ride_data = data]
    /\ UNCHANGED <<health, rides0, rp, gc, run, cs, qr>>

\* _abort_all, first call: abort at the source. A call that raises ends
\* _abort_all (one try block around both calls); an HTTP error does not.
abort_source(c, o) ==
    LET t == task[c] IN
    /\ t.pc = "abort_source"
    /\ rides' = [rides EXCEPT ![t.source] =
                   IF Applied(o) THEN AbortRides(@, ptx[t.source], TxId(c)) ELSE @]
    /\ ptx' = [ptx EXCEPT ![t.source] = IF Applied(o) THEN AbortRecord(@, TxId(c)) ELSE @]
    /\ IF Raises(o)
       THEN Return(c, "ABORTED", "Target region aborted transaction")
       ELSE Goto(c, "abort_target")
    /\ UNCHANGED <<txlog, health, rides0, rp, gc, run, cs, qr>>

\* _abort_all, second call: abort at the target, then execute returns.
abort_target(c, o) ==
    LET t == task[c] IN
    /\ t.pc = "abort_target"
    /\ rides' = [rides EXCEPT ![t.target] =
                   IF Applied(o) THEN AbortRides(@, ptx[t.target], TxId(c)) ELSE @]
    /\ ptx' = [ptx EXCEPT ![t.target] = IF Applied(o) THEN AbortRecord(@, TxId(c)) ELSE @]
    /\ Return(c, "ABORTED", "Target region aborted transaction")
    /\ UNCHANGED <<txlog, health, rides0, rp, gc, run, cs, qr>>

\* ------------------------------------------------------------------------
\* QueryRouter: search by scope (local, global-fast, global-live)
\* ------------------------------------------------------------------------
\* The rides a region may answer with: RideResponse, of which the search
\* reads the timestamp.
QRideId == [r \in REGIONAL_APIS |-> IF r = "Phoenix" THEN "R-1" ELSE "R-2"]
QRides(r) == {[rideId |-> QRideId[r], timestamp |-> t] : t \in 1..MaxTimestamp}
Answers(r) == UNION {[1..n -> QRides(r)] : n \in 0..MaxLen}
Pending == <<[rideId |-> Null, timestamp |-> 0]>>

\* RideQuery.scope and RideQuery.city (None when absent).
Scopes == {"local", "global-fast", "global-live"}
Cities == REGIONAL_APIS \cup {Null}

\* One search request: the query (scope, city, limit), each region's fetch
\* result, the regions a GET was sent to, the regions whose fetch failed,
\* whether the GLOBAL rides collection was read, and the response.
InitQR == [pc |-> "idle", scope |-> Null, city |-> Null, limit |-> 0,
           results |-> [r \in REGIONAL_APIS |-> Pending], result |-> <<>>,
           contacted |-> {}, failed |-> {}, global_read |-> FALSE,
           status |-> Null]

QFrame == UNCHANGED <<rides, ptx, txlog, health, task, rides0, rp, gc, run, cs>>

\* list.sort(key=lambda x: x.timestamp, reverse=True): stable, so rides of
\* equal timestamp keep the order they had.
RECURSIVE insert_desc(_, _)
insert_desc(x, s) ==
    IF s = <<>> THEN <<x>>
    ELSE IF Head(s).timestamp > x.timestamp
         THEN <<Head(s)>> \o insert_desc(x, Tail(s))
         ELSE <<x>> \o s

RECURSIVE sort_desc(_)
sort_desc(s) ==
    IF s = <<>> THEN <<>> ELSE insert_desc(Head(s), sort_desc(Tail(s)))

\* all_rides: the answers in the order of REGIONAL_APIS.values().
all_rides(results) == results["Phoenix"] \o results["Los Angeles"]

\* A merge that truncates without sorting.
search_global_live_unsorted(results, limit) ==
    LET all == all_rides(results) IN
    SubSeq(all, 1, IF Len(all) < limit THEN Len(all) ELSE limit)

\* _search_global_live: merge, sort, all_rides[:query.limit].
search_global_live(results, limit) ==
    LET sorted == sort_desc(all_rides(results)) IN
    SubSeq(sorted, 1, IF Len(sorted) < limit THEN Len(sorted) ELSE limit)

\* A router that fetches from every region whatever the scope.
Targets_every_region(scope, city) == REGIONAL_APIS

\* The regions whose API a search fetches from: the city's region for scope
\* local, every region for global-live, none for global-fast.
Targets(scope, city) ==
    IF scope = "local" THEN {city} \cap REGIONAL_APIS
    ELSE IF scope = "global-live" THEN REGIONAL_APIS
    ELSE {}

\* QueryRouter.search: dispatch on the scope. _search_local raises 400 when
\* the city is absent; otherwise the fetches, or the GLOBAL read, are started.
search(scope, city, limit) ==
    /\ qr.pc = "idle"
    /\ qr' = IF scope = "local" /\ city = Null
             THEN [qr EXCEPT !.pc = "done", !.scope = scope, !.city = city,
                             !.limit = limit, !.status = "400"]
             ELSE [qr EXCEPT !.pc = IF scope = "global-fast" THEN "find" ELSE "gather",
                             !.scope = scope, !.city = city, !.limit = limit]
    /\ QFrame

\* _search_global_fast: find(filter).limit(limit) on the GLOBAL rides
\* collection, [] on any exception; matching is what the filter selects.
search_global_fast(matching, ok) ==
    /\ qr.pc = "find"
    /\ qr' = [qr EXCEPT !.pc = "done", !.global_read = TRUE, !.status = "200",
                        !.result = IF ok
                                   THEN SubSeq(matching, 1,
                                               IF Len(matching) < qr.limit
                                               THEN Len(matching) ELSE qr.limit)
                                   ELSE <<>>]
    /\ QFrame

\* A fetch whose failure fails the whole search.
fetch_from_region_raises(r, answer, ok) ==
    /\ qr.pc = "gather"
    /\ r \in Targets(qr.scope, qr.city)
    /\ qr.results[r] = Pending
    /\ qr' = IF ok
             THEN [qr EXCEPT !.results[r] = answer, !.contacted = @ \cup {r}]
             ELSE [qr EXCEPT !.results[r] = <<>>, !.contacted = @ \cup {r},
                             !.failed = @ \cup {r}, !.pc = "done", !.status = "500"]
    /\ QFrame

\* _fetch_from_region: the region's rides on a 200 answer, [] on any other
\* answer and on any exception. The regions answer in any order.
fetch_from_region(r, answer, ok) ==
    /\ qr.pc = "gather"
    /\ r \in Targets(qr.scope, qr.city)
    /\ qr.results[r] = Pending
    /\ qr' = [qr EXCEPT !.results[r] = IF ok THEN answer ELSE <<>>,
                        !.contacted = @ \cup {r},
                        !.failed = IF ok THEN @ ELSE @ \cup {r}]
    /\ QFrame

\* Every fetch has its result: _search_local returns the region's list as
\* it is, _search_global_live the merged list.
gather_done ==
    /\ qr.pc = "gather"
    /\ \A r \in Targets(qr.scope, qr.city) : qr.results[r] # Pending
    /\ qr' = [qr EXCEPT !.pc = "done", !.status = "200",
                        !.result = IF qr.scope = "local" THEN qr.results[qr.city]
                                   ELSE search_global_live(qr.results, qr.limit)]
    /\ QFrame

NextQR ==
    \/ \E scope \in Scopes, city \in Cities, limit \in 1..MaxLimit :
          search(scope, city, limit)
    \/ \E r \in REGIONAL_APIS, ok \in BOOLEAN : \E matching \in Answers(r) :
          search_global_fast(matching, ok)
    \/ \E r \in REGIONAL_APIS, ok \in BOOLEAN : \E answer \in Answers(r) :
          fetch_from_region(r, answer, ok)
    \/ gather_done

\* ------------------------------------------------------------------------
\* Change replication: watch_phoenix_changes / watch_la_changes
\* ------------------------------------------------------------------------
\* A ride document as the change streams see it: its _id, its rideId, its
\* city and the version of its other fields (each update makes a new one).
CsDoc(oid, id, city, version) ==
    [_id |-> oid, rideId |-> id, city |-> city, version |-> version]

\* A change event of collection.watch(full_document='updateLookup'). The
\* fullDocument of an update is looked up by the server some time after the
\* update itself; until then it is "unfetched", and it is None when the
\* document no longer exists at lookup time.
None == [_id |-> 0, rideId |-> Null, city |-> Null, version |-> 0]
Unfetched == [_id |-> 0 - 1, rideId |-> Null, city |-> Null, version |-> 0]
Change(operationType, documentKey, fullDocument) ==
    [operationType |-> operationType, documentKey |-> documentKey,
     fullDocument |-> fullDocument]

\* initial_sync: GLOBAL holds a copy of every Phoenix and Los Angeles ride
\* when the watchers start. main is where main() stands, watcher what each
\* region's watcher thread does: "unopened" before its watch() call,
\* "active" while it iterates over the stream, "stopped" once it returned.
InitCS ==
    LET d == CsDoc(1, "R-1", "Phoenix", 0) IN
    [store |-> [r \in REGIONAL_APIS |-> IF r = "Phoenix" THEN {d} ELSE {}],
     global |-> {d},
     feed |-> [r \in REGIONAL_APIS |-> <<>>],
     next_id |-> 1,
     writes |-> 0,
     dropped |-> FALSE,
     main |-> "running",
     watcher |-> [r \in REGIONAL_APIS |-> "active"]]

CsFrame == UNCHANGED <<rides, ptx, txlog, health, task, rides0, rp, gc, run, qr>>

\* rides.watch() without resume_after or start_at_operation_time: the
\* stream delivers the changes made while it is open.
Emit(r, f, change) == IF cs.watcher[r] = "active" THEN Append(f, change) ELSE f

\* A regional insert_one (create_ride, commit INSERT): the document gets a
\* fresh _id, and the feed an insert event carrying it.
cs_insert(r, id) ==
    LET d == CsDoc(cs.next_id + 1, id, r, 0) IN
    /\ cs.writes < MaxWrites
    /\ cs' = [cs EXCEPT !.store[r] = @ \cup {d},
                        !.feed[r] = Emit(r, @, Change("insert", d._id, d)),
                        !.next_id = @ + 1,
                        !.writes = @ + 1]
    /\ CsFrame

\* A regional update (update_ride, the lock of prepare, the unlock of abort).
cs_update(r, d) ==
    /\ d \in cs.store[r]
    /\ cs.writes < MaxWrites
    /\ cs' = [cs EXCEPT !.store[r] = (@ \ {d}) \cup {[d EXCEPT !.version = @ + 1]},
                        !.feed[r] = Emit(r, @, Change("update", d._id, Unfetched)),
                        !.writes = @ + 1]
    /\ CsFrame

\* A regional delete_one (delete_ride, commit DELETE).
cs_delete(r, d) ==
    /\ d \in cs.store[r]
    /\ cs.writes < MaxWrites
    /\ cs' = [cs EXCEPT !.store[r] = @ \ {d},
                        !.feed[r] = Emit(r, @, Change("delete", d._id, None)),
                        !.writes = @ + 1]
    /\ CsFrame

\* The commit phase of a handoff: delete_one at the source, insert_one of the
\* copy (without _id, with the new city) at the target.
cs_handoff(r, q, d) ==
    LET copy == [d EXCEPT !._id = cs.next_id + 1, !.city = q] IN
    /\ r # q
    /\ d \in cs.store[r]
    /\ cs.writes < MaxWrites
    /\ cs' = [cs EXCEPT !.store[r] = @ \ {d},
                        !.store[q] = @ \cup {copy},
                        !.feed[r] = Emit(r, @, Change("delete", d._id, None)),
                        !.feed[q] = Emit(q, @, Change("insert", copy._id, copy)),
                        !.next_id = @ + 1,
                        !.writes = @ + 1]
    /\ CsFrame

\* updateLookup: the server fills in the fullDocument of the oldest update
\* event not yet looked up with the document's current state.
RECURSIVE FirstUnfetched(_, _)
FirstUnfetched(f, i) ==
    IF i > Len(f) THEN 0
    ELSE IF f[i].fullDocument = Unfetched THEN i ELSE FirstUnfetched(f, i + 1)

updateLookup(r) ==
    LET i == FirstUnfetched(cs.feed[r], 1)
        key == cs.feed[r][i].documentKey
        found == {d \in cs.store[r] : d._id = key} IN
    /\ i # 0
    /\ cs' = [cs EXCEPT !.feed[r][i].fullDocument =
                          IF found = {} THEN None ELSE CHOOSE d \in found : TRUE]
    /\ CsFrame

\* The branch a watcher takes for one change: insert_one (DuplicateKeyError
\* is caught and the event skipped), delete_one by _id, replace_one by _id
\* with upsert.
ApplyChange_no_delete(g, change) ==
    IF change.operationType = "insert"
    THEN IF \E d \in g : d._id = change.documentKey THEN g
         ELSE g \cup {change.fullDocument}
    ELSE IF change.operationType = "delete"
    THEN g
    ELSE IF change.fullDocument # None
    THEN {d \in g : d._id # change.documentKey} \cup {change.fullDocument}
    ELSE g

ApplyChange(g, change) ==
    IF change.operationType = "insert"
    THEN IF \E d \in g : d._id = change.documentKey THEN g
         ELSE g \cup {change.fullDocument}
    ELSE IF change.operationType = "delete"
    THEN {d \in g : d._id # change.documentKey}
    ELSE IF change.fullDocument # None
    THEN {d \in g : d._id # change.documentKey} \cup {change.fullDocument}
    ELSE g

\* watch_phoenix_changes / watch_la_changes: one iteration of the loop over
\* the stream. A write to GLOBAL that raises is printed and the event is
\* gone.
\* A write to GLOBAL succeeds or raises.
WriteOutcomes == {"ok", "raise"}

watch_changes(r, o) ==
    LET change == Head(cs.feed[r]) IN
    /\ cs.watcher[r] = "active"
    /\ cs.feed[r] # <<>>
    /\ change.fullDocument # Unfetched
    /\ cs' = [cs EXCEPT !.feed[r] = Tail(@),
                        !.global = IF o = "ok" THEN ApplyChange(@, change) ELSE @,
                        !.dropped = @ \/ (o = "raise" /\ ApplyChange(cs.global, change) # cs.global)]
    /\ CsFrame

NextCS ==
    \/ \E r \in REGIONAL_APIS, id \in RideIds : cs_insert(r, id)
    \/ \E r \in REGIONAL_APIS : \E d \in cs.store[r] : cs_update(r, d)
    \/ \E r \in REGIONAL_APIS : \E d \in cs.store[r] : cs_delete(r, d)
    \/ \E r \in REGIONAL_APIS, q \in REGIONAL_APIS : \E d \in cs.store[r] :
          cs_handoff(r, q, d)
    \/ \E r \in REGIONAL_APIS : updateLookup(r)
    \/ \E r \in REGIONAL_APIS, o \in WriteOutcomes : watch_changes(r, o)

\* What the replicator can still do for region r.
ReplicatorStep(r) == updateLookup(r) \/ \E o \in WriteOutcomes : watch_changes(r, o)

\* The change stream of region r raises (the subscription is lost): the
\* watcher prints the error, closes its clients and returns. Its thread has
\* ended; main() starts no other.
stream_error(r) ==
    /\ cs.watcher[r] = "active"
    /\ cs' = [cs EXCEPT !.watcher[r] = "stopped", !.feed[r] = <<>>]
    /\ CsFrame

NextRestart ==
    \/ NextCS
    \/ \E r \in REGIONAL_APIS : stream_error(r)

\* main() before initial_sync: GLOBAL is empty, or holds the rides already
\* (an earlier run of the script); no stream is open.
StartCS ==
    {[InitCS EXCEPT !.global = g, !.main = "start",
                    !.watcher = [r \in REGIONAL_APIS |-> "unopened"]] :
        g \in {{}, InitCS.global}}

\* initial_sync, "Check if Global already has data": with rides in GLOBAL
\* the sync is skipped (answer no, or NON_INTERACTIVE), or GLOBAL is cleared
\* first (answer yes).
initial_sync_check(clear) ==
    /\ cs.main = "start"
    /\ cs' = IF cs.global = {} THEN [cs EXCEPT !.main = "copy_phx"]
             ELSE IF clear THEN [cs EXCEPT !.global = {}, !.main = "copy_phx"]
             ELSE [cs EXCEPT !.main = "synced"]
    /\ CsFrame

\* initial_sync, "Copy Phoenix rides" and "Copy LA rides": find() and
\* insert_many into GLOBAL.
initial_sync_copy(r) ==
    /\ cs.main = IF r = "Phoenix" THEN "copy_phx" ELSE "copy_la"
    /\ cs' = [cs EXCEPT !.global = @ \cup cs.store[r],
                        !.main = IF r = "Phoenix" THEN "copy_la" ELSE "synced"]
    /\ CsFrame

\* main, "Start both threads".
start_threads ==
    /\ cs.main = "synced"
    /\ cs' = [cs EXCEPT !.main = "running"]
    /\ CsFrame

\* watch_phoenix_changes / watch_la_changes: rides.watch() opens the stream.
open_stream(r) ==
    /\ cs.main = "running"
    /\ cs.watcher[r] = "unopened"
    /\ cs' = [cs EXCEPT !.watcher[r] = "active"]
    /\ CsFrame

NextStartup ==
    \/ NextCS
    \/ \E clear \in BOOLEAN : initial_sync_check(clear)
    \/ \E r \in REGIONAL_APIS : initial_sync_copy(r)
    \/ start_threads
    \/ \E r \in REGIONAL_APIS : open_stream(r)

\* ------------------------------------------------------------------------
\* repo_harshith: GlobalCoordinator and two_phase_handoff (Phoenix -> LA)
\* ------------------------------------------------------------------------
\* How one store operation of the script ends: done; raising PyMongoError
\* before it took effect; or applied by the server with the reply lost, so
\* that it raises on the client all the same.
DbOutcomes == {"ok", "raise", "lost"}

\* str(uuid.uuid4()) of begin_transaction in run k.
GTxId(k) == "gtx-" \o ToString(k)
GTxIds == {GTxId(k) : k \in Runs}

IdleRun == [pc |-> "idle", tx_id |-> Null, ride_id |-> Null, dest |-> NoRide]

\* GlobalCoordinator.begin_transaction: the record starts with history [STARTED].
begin_transaction(g, tx_id) == [g EXCEPT ![tx_id] = <<"STARTED">>]

\* GlobalCoordinator._append_status: $set status, $push history.
append_status(g, tx_id, new_status) == [g EXCEPT ![tx_id] = Append(@, new_status)]

\* pick_test_ride_from_phx
pick_test_ride_from_phx(s) ==
    find_one(s, LAMBDA d : d.status = "IN_PROGRESS" /\ ~d.locked)

HGoto(k, pc) == run' = [run EXCEPT ![k].pc = pc]
HFrame == UNCHANGED <<ptx, txlog, health, task, rides0, rp, cs, qr>>

\* 1) Pick a candidate ride; with none the run returns. A failure here has
\* nothing to roll back (tx_id is None).
h_pick(k, o) ==
    LET ride == pick_test_ride_from_phx(rides["Phoenix"]) IN
    /\ run[k].pc = "idle"
    /\ \A j \in Runs : j < k => run[j].pc # "idle"
    /\ o \in {"ok", "raise"}
    /\ IF o = "ok" /\ ride # NoRide
       THEN run' = [run EXCEPT ![k].pc = "begin", ![k].ride_id = ride.rideId]
       ELSE HGoto(k, "done")
    /\ UNCHANGED <<rides, gc>> /\ HFrame

\* gc.begin_transaction; when it raises, tx_id stays None and the handler
\* rolls nothing back.
h_begin(k, o) ==
    /\ run[k].pc = "begin"
    /\ gc' = IF o \in {"ok", "lost"} THEN begin_transaction(gc, GTxId(k)) ELSE gc
    /\ IF o = "ok"
       THEN run' = [run EXCEPT ![k].pc = "prepare_phx", ![k].tx_id = GTxId(k)]
       ELSE HGoto(k, "done")
    /\ UNCHANGED rides /\ HFrame

\* PHASE 1 a) lock and mark the ride PREPARED in Phoenix (matched_count must
\* be 1), then the optional simulated failure.
PreparePhx(s, ride_id, tx_id) ==
    update_one(s, LAMBDA d : d.rideId = ride_id /\ ~d.locked,
               LAMBDA d : [d EXCEPT !.locked = TRUE,
                                    !.handoff_status = "PREPARED",
                                    !.transaction_id = tx_id])

h_prepare_phx(k, o, simulate_failure) ==
    LET r == run[k]
        matched == \E d \in Docs(rides["Phoenix"]) : d.rideId = r.ride_id /\ ~d.locked IN
    /\ r.pc = "prepare_phx"
    /\ rides' = [rides EXCEPT !["Phoenix"] =
                   IF o \in {"ok", "lost"} THEN PreparePhx(@, r.ride_id, r.tx_id) ELSE @]
    /\ IF o = "ok" /\ matched /\ ~simulate_failure
       THEN HGoto(k, "insert_la")
       ELSE HGoto(k, "rollback_phx")
    /\ UNCHANGED gc /\ HFrame

\* PHASE 1 b) fetch the updated document and insert its copy into LA.
DestDoc(src_doc) == [src_doc EXCEPT !.city = "Los Angeles"]

h_insert_la(k, fetch, o) ==
    LET r == run[k]
        src_doc == find_one(rides["Phoenix"], LAMBDA d : d.rideId = r.ride_id) IN
    /\ r.pc = "insert_la"
    /\ fetch \in {"ok", "raise"}
    /\ IF fetch = "raise" \/ src_doc = NoRide
       THEN /\ HGoto(k, "rollback_phx")
            /\ UNCHANGED rides
       ELSE /\ rides' = [rides EXCEPT !["Los Angeles"] =
                           IF o \in {"ok", "lost"} THEN insert_one(@, DestDoc(src_doc))
                           ELSE @]
            /\ IF o = "ok"
               THEN run' = [run EXCEPT ![k].pc = "mark_prepared",
                                       ![k].dest = DestDoc(src_doc)]
               ELSE HGoto(k, "rollback_phx")
    /\ UNCHANGED gc /\ HFrame

\* gc.mark_prepared
h_mark_prepared(k, o) ==
    /\ run[k].pc = "mark_prepared"
    /\ gc' = IF o \in {"ok", "lost"} THEN append_status(gc, run[k].tx_id, "PREPARED")
             ELSE gc
    /\ IF o = "ok" THEN HGoto(k, "delete_phx") ELSE HGoto(k, "rollback_phx")
    /\ UNCHANGED rides /\ HFrame

\* PHASE 2 a) delete the original from Phoenix (deleted_count must be 1).
DeletePhx(s, ride_id, tx_id) ==
    delete_one(s, LAMBDA d : d.rideId = ride_id /\ d.transaction_id = tx_id)

h_delete_phx(k, o) ==
    LET r == run[k]
        found == \E d \in Docs(rides["Phoenix"]) :
                    d.rideId = r.ride_id /\ d.transaction_id = r.tx_id IN
    /\ r.pc = "delete_phx"
    /\ rides' = [rides EXCEPT !["Phoenix"] =
                   IF o \in {"ok", "lost"} THEN DeletePhx(@, r.ride_id, r.tx_id) ELSE @]
    /\ IF o = "ok" /\ found THEN HGoto(k, "update_la") ELSE HGoto(k, "rollback_phx")
    /\ UNCHANGED gc /\ HFrame

\* PHASE 2 b) mark the LA ride COMMITTED and unlock it (update by _id).
CommitLa(s, dest) ==
    update_one(s, LAMBDA d : d = dest,
               LAMBDA d : [d EXCEPT !.handoff_status = "COMMITTED",
                                    !.locked = FALSE,
                                    !.transaction_id = Null])

h_update_la(k, o) ==
    /\ run[k].pc = "update_la"
    /\ rides' = [rides EXCEPT !["Los Angeles"] =
                   IF o \in {"ok", "lost"} THEN CommitLa(@, run[k].dest) ELSE @]
    /\ IF o = "ok" THEN HGoto(k, "mark_committed") ELSE HGoto(k, "rollback_phx")
    /\ UNCHANGED gc /\ HFrame

\* gc.mark_committed, still inside the try block.
h_mark_committed(k, o) ==
    /\ run[k].pc = "mark_committed"
    /\ gc' = IF o \in {"ok", "lost"} THEN append_status(gc, run[k].tx_id, "COMMITTED")
             ELSE gc
    /\ IF o = "ok" THEN HGoto(k, "done") ELSE HGoto(k, "rollback_phx")
    /\ UNCHANGED rides /\ HFrame

\* ROLLBACK: unlock the ride in Phoenix if it was left PREPARED. A PyMongoError
\* in any rollback operation ends the rollback.
RollbackPhx(s, ride_id, tx_id) ==
    update_one(s, LAMBDA d : d.rideId = ride_id /\ d.transaction_id = tx_id,
               LAMBDA d : [d EXCEPT !.locked = FALSE,
                                    !.handoff_status = "ABORTED",
                                    !.transaction_id = Null])

h_rollback_phx(k, o) ==
    LET r == run[k] IN
    /\ r.pc = "rollback_phx"
    /\ rides' = [rides EXCEPT !["Phoenix"] =
                   IF o \in {"ok", "lost"} THEN RollbackPhx(@, r.ride_id, r.tx_id) ELSE @]
    /\ IF o = "ok" THEN HGoto(k, "rollback_la") ELSE HGoto(k, "done")
    /\ UNCHANGED gc /\ HFrame

\* ROLLBACK: remove tentative copies in LA for this tx (delete_many).
RECURSIVE delete_many_tx(_, _)
delete_many_tx(s, tx_id) ==
    IF s = <<>> THEN <<>>
    ELSE IF Head(s).transaction_id = tx_id THEN delete_many_tx(Tail(s), tx_id)
    ELSE <<Head(s)>> \o delete_many_tx(Tail(s), tx_id)

h_rollback_la(k, o) ==
    /\ run[k].pc = "rollback_la"
    /\ rides' = [rides EXCEPT !["Los Angeles"] =
                   IF o \in {"ok", "lost"} THEN delete_many_tx(@, run[k].tx_id) ELSE @]
    /\ IF o = "ok" THEN HGoto(k, "mark_aborted") ELSE HGoto(k, "done")
    /\ UNCHANGED gc /\ HFrame

\* ROLLBACK: gc.mark_aborted, then the run ends.
h_mark_aborted(k, o) ==
    /\ run[k].pc = "mark_aborted"
    /\ gc' = IF o \in {"ok", "lost"} THEN append_status(gc, run[k].tx_id, "ABORTED")
             ELSE gc
    /\ HGoto(k, "done")
    /\ UNCHANGED rides /\ HFrame

InitH ==
    /\ rides = [r \in REGIONAL_APIS |->
                  IF r = "Phoenix"
                  THEN <<Doc("R-1", "Phoenix", FALSE, Null, Null),
                         Doc("R-2", "Phoenix", FALSE, Null, Null)>>
                  ELSE <<>>]
    /\ rides0 = rides
    /\ ptx = [r \in REGIONAL_APIS |-> [x \in TxIds |-> <<>>]]
    /\ txlog = {}
    /\ health = [r \in REGIONAL_APIS |-> TRUE]
    /\ task = [c \in Tasks |-> IdleTask]
    /\ rp = [calls |-> 0, pending |-> {}, creating |-> {}, snaps |-> {}]
    /\ gc = [x \in GTxIds |-> <<>>]
    /\ run = [k \in Runs |-> IdleRun]
    /\ cs = InitCS
    /\ qr = InitQR

NextH ==
    \E k \in Runs :
        \/ \E o \in DbOutcomes : h_pick(k, o)
        \/ \E o \in DbOutcomes : h_begin(k, o)
        \/ \E o \in DbOutcomes, sim \in BOOLEAN : h_prepare_phx(k, o, sim)
        \/ \E f \in DbOutcomes, o \in DbOutcomes : h_insert_la(k, f, o)
        \/ \E o \in DbOutcomes : h_mark_prepared(k, o)
        \/ \E o \in DbOutcomes : h_delete_phx(k, o)
        \/ \E o \in DbOutcomes : h_update_la(k, o)
        \/ \E o \in DbOutcomes : h_mark_committed(k, o)
        \/ \E o \in DbOutcomes : h_rollback_phx(k, o)
        \/ \E o \in DbOutcomes : h_rollback_la(k, o)
        \/ \E o \in DbOutcomes : h_mark_aborted(k, o)

SpecH == InitH /\ [][NextH]_vars

\* ------------------------------------------------------------------------
\* Specification of the coordinator with its two participants
\* ------------------------------------------------------------------------
InitRides ==
    [r \in REGIONAL_APIS |->
        IF r = "Phoenix" THEN <<Doc("R-1", "Phoenix", FALSE, Null, Null)>>
        ELSE <<>>]

Init ==
    /\ rides = InitRides
    /\ rides0 = rides
    /\ ptx = [r \in REGIONAL_APIS |-> [x \in TxIds |-> <<>>]]
    /\ txlog = {}
    /\ health = [r \in REGIONAL_APIS |-> TRUE]
    /\ task = [c \in Tasks |-> IdleTask]
    /\ rp = [calls |-> 0, pending |-> {}, creating |-> {}, snaps |-> {}]
    /\ gc = [x \in GTxIds |-> <<>>]
    /\ run = [k \in Runs |-> IdleRun]
    /\ cs = InitCS
    /\ qr = InitQR

Step(c) ==
    \/ \E id \in RideIds, s \in REGIONAL_APIS, t \in REGIONAL_APIS :
          initiate_handoff(c, id, s, t)
    \/ \E o \in Outcomes : prepare_source_find(c, o)
    \/ \E o \in Outcomes : prepare_source_lock(c, o)
    \/ \E o \in Outcomes : prepare_target(c, o)
    \/ \E o \in Outcomes : commit_source(c, o)
    \/ \E o \in Outcomes, inserted \in BOOLEAN : commit_target(c, o, inserted)
    \/ \E o \in Outcomes : abort_source(c, o)
    \/ \E o \in Outcomes : abort_target(c, o)

Next ==
    \/ \E c \in Tasks : Step(c)
    \/ \E r \in REGIONAL_APIS, up \in BOOLEAN : monitor_loop(r, up)

Spec == Init /\ [][Next]_vars

\* Every admitted request handler keeps being scheduled by the event loop and
\* each of its HTTP calls returns or raises (httpx timeout of 10 s).
FairSpec == Spec /\ \A c \in Tasks : WF_vars(Step(c))

\* The coordinator process dies while request c waits between two of its
\* HTTP calls: execute never resumes, no except or finally clause runs, and
\* nothing in the repository takes the transaction up again.
crash(c) ==
    /\ task[c].pc \in {"prepare_source", "prepare_target", "commit_source",
                       "commit_target", "abort_source", "abort_target"}
    /\ task' = [task EXCEPT ![c].pc = "crashed", ![c].crashed_at = task[c].pc]
    /\ UNCHANGED <<rides, ptx, txlog, health, rides0, rp, gc, run, cs, qr>>

NextCrash ==
    \/ Next
    \/ \E c \in Tasks : crash(c)

SpecCrash == Init /\ [][NextCrash]_vars

\* POST /handoff with a body that HandoffRequest rejects: FastAPI answers
\* 422 Unprocessable Entity and initiate_handoff is never called.
handoff_request_invalid(c, ride_id, source, target) ==
    /\ task[c].pc = "idle"
    /\ \A b \in Tasks : b < c => task[b].pc # "idle"
    /\ ~source_and_target_must_differ(source, target)
    /\ task' = [task EXCEPT ![c] = [IdleTask EXCEPT
                    !.pc = "done", !.ride_id = ride_id, !.source = source,
                    !.target = target, !.status = "422"]]
    /\ UNCHANGED <<rides, ptx, txlog, health, rides0, rp, gc, run, cs, qr>>

NextValidated ==
    \/ Next
    \/ \E c \in Tasks, id \in RideIds, s \in REGIONAL_APIS, t \in REGIONAL_APIS :
          handoff_request_invalid(c, id, s, t)

SpecValidated == Init /\ [][NextValidated]_vars

\* ------------------------------------------------------------------------
\* Specification of the regional participants under arbitrary clients:
\* CRUD requests and 2PC requests in any order, on either region
\* ------------------------------------------------------------------------
RideStatus == {"IN_PROGRESS", "COMPLETED"}

Call == rp.calls < MaxCalls /\ rp' = [rp EXCEPT !.calls = @ + 1]

\* create_ride, first await: find_one by rideId; 409 when the rideId exists,
\* else the handler goes on to insert RideCreate.model_dump(), which carries
\* none of the three transaction fields. Other requests run in between.
CreateRide(id, city) == Doc(id, city, FALSE, Null, Null)

create_ride_find(r, id, city) ==
    LET existing == PrepareFind(rides[r], id) IN
    /\ rp.calls < MaxCalls
    /\ rp' = [rp EXCEPT !.calls = @ + 1,
                        !.creating = IF existing # NoRide THEN @
                                     ELSE @ \cup {[region |-> r,
                                                   ride |-> CreateRide(id, city)]}]
    /\ UNCHANGED <<rides, ptx, txlog, health, task, rides0, gc, run, cs, qr>>

\* create_ride, second await: insert_one, 201.
create_ride_insert(call) ==
    /\ call \in rp.creating
    /\ rides' = [rides EXCEPT ![call.region] = insert_one(@, call.ride)]
    /\ rp' = [rp EXCEPT !.creating = @ \ {call}]
    /\ UNCHANGED <<ptx, txlog, health, task, rides0, gc, run, cs, qr>>

\* update_ride: find_one_and_update by rideId with the fields of RideUpdate.
UpdateRide(s, id, st) ==
    update_one(s, LAMBDA d : d.rideId = id, LAMBDA d : [d EXCEPT !.status = st])

update_ride(r, id, st) ==
    /\ Call
    /\ rides' = [rides EXCEPT ![r] = UpdateRide(@, id, st)]
    /\ UNCHANGED <<ptx, txlog, health, task, rides0, gc, run, cs, qr>>

\* delete_ride: delete_one by rideId.
delete_ride(r, id) ==
    /\ Call
    /\ rides' = [rides EXCEPT ![r] = delete_one(@, LAMBDA d : d.rideId = id)]
    /\ UNCHANGED <<ptx, txlog, health, task, rides0, gc, run, cs, qr>>

\* prepare_transaction, DELETE: the read and the checks; a handler that is to
\* vote COMMIT is suspended before its update_one.
prepare_delete_find(r, id, tx_id) ==
    LET ride == PrepareFind(rides[r], id) IN
    /\ rp.calls < MaxCalls
    /\ rp' = [rp EXCEPT !.calls = @ + 1,
                        !.pending = IF PrepareVote(ride) = "COMMIT"
                                    THEN @ \cup {[region |-> r, ride_id |-> id,
                                                  tx_id |-> tx_id, ride |-> ride]}
                                    ELSE @]
    /\ UNCHANGED <<rides, ptx, txlog, health, task, rides0, gc, run, cs, qr>>

\* How the two store writes of a DELETE prepare end: both done; the lock
\* update_one raises; the insert_one of the record raises after the lock.
PrepareOutcomes == {"ok", "update_raises", "insert_raises"}

\* prepare_transaction, DELETE: lock, record, vote COMMIT with the snapshot.
\* A store operation that raises ends the handler with vote ABORT.
prepare_delete_lock(call, o) ==
    /\ call \in rp.pending
    /\ rides' = [rides EXCEPT ![call.region] =
                   IF o = "update_raises" THEN @
                   ELSE PrepareLock(@, call.ride_id, call.tx_id)]
    /\ ptx' = [ptx EXCEPT ![call.region] =
                 IF o = "ok" THEN PrepareRecord(@, call.tx_id, call.ride_id, "DELETE")
                 ELSE @]
    /\ rp' = [rp EXCEPT !.pending = @ \ {call},
                        !.snaps = IF o = "ok" THEN @ \cup {call.ride} ELSE @]
    /\ UNCHANGED <<txlog, health, task, rides0, gc, run, cs, qr>>

\* prepare_transaction, INSERT: record the transaction, vote COMMIT.
prepare_insert(r, id, tx_id) ==
    /\ Call
    /\ ptx' = [ptx EXCEPT ![r] = PrepareRecord(@, tx_id, id, "INSERT")]
    /\ UNCHANGED <<rides, txlog, health, task, rides0, gc, run, cs, qr>>

\* commit_transaction, DELETE.
commit_delete(r, id, tx_id) ==
    /\ Call
    /\ rides' = [rides EXCEPT ![r] = CommitDelete(@, id, tx_id)]
    /\ ptx' = [ptx EXCEPT ![r] = CommitRecord(@, tx_id)]
    /\ UNCHANGED <<txlog, health, task, rides0, gc, run, cs, qr>>

\* commit_transaction, INSERT; ride_data is absent or what _commit_target
\* makes of a snapshot returned by a prepare.
commit_insert(r, id, tx_id, ride_data) ==
    /\ Call
    /\ rides' = [rides EXCEPT ![r] = CommitInsert(@, ride_data)]
    /\ ptx' = [ptx EXCEPT ![r] = CommitRecord(@, tx_id)]
    /\ UNCHANGED <<txlog, health, task, rides0, gc, run, cs, qr>>

\* abort_transaction.
abort_transaction(r, tx_id) ==
    /\ Call
    /\ rides' = [rides EXCEPT ![r] = AbortRides(@, ptx[r], tx_id)]
    /\ ptx' = [ptx EXCEPT ![r] = AbortRecord(@, tx_id)]
    /\ UNCHANGED <<txlog, health, task, rides0, gc, run, cs, qr>>

NextRP ==
    \/ \E r \in REGIONAL_APIS, id \in RideIds, city \in REGIONAL_APIS :
          create_ride_find(r, id, city)
    \/ \E call \in rp.creating : create_ride_insert(call)
    \/ \E r \in REGIONAL_APIS, id \in RideIds, st \in RideStatus : update_ride(r, id, st)
    \/ \E r \in REGIONAL_APIS, id \in RideIds : delete_ride(r, id)
    \/ \E r \in REGIONAL_APIS, id \in RideIds, x \in TxIds : prepare_delete_find(r, id, x)
    \/ \E call \in rp.pending, o \in PrepareOutcomes : prepare_delete_lock(call, o)
    \/ \E r \in REGIONAL_APIS, id \in RideIds, x \in TxIds : prepare_insert(r, id, x)
    \/ \E r \in REGIONAL_APIS, id \in RideIds, x \in TxIds : commit_delete(r, id, x)
    \/ \E r \in REGIONAL_APIS, id \in RideIds, x \in TxIds :
          \E data \in {NoRide} \cup {CommitRideData(d, r) : d \in rp.snaps} :
             commit_insert(r, id, x, data)
    \/ \E r \in REGIONAL_APIS, x \in TxIds : abort_transaction(r, x)

SpecRP == Init /\ [][NextRP]_vars

\* The coordinator's handoffs while clients update rides through the
\* regional APIs (PUT /rides/{id}).
NextClients ==
    \/ Next
    \/ \E r \in REGIONAL_APIS, id \in RideIds, st \in RideStatus : update_ride(r, id, st)

SpecClients == Init /\ [][NextClients]_vars

SpecCS == Init /\ [][NextCS]_vars

SpecQR == Init /\ [][NextQR]_vars

\* The replicator with streams that may fail.
SpecRestart == Init /\ [][NextRestart]_vars

\* The replicator from the start of main().
InitStartup ==
    /\ rides = InitRides
    /\ rides0 = rides
    /\ ptx = [r \in REGIONAL_APIS |-> [x \in TxIds |-> <<>>]]
    /\ txlog = {}
    /\ health = [r \in REGIONAL_APIS |-> TRUE]
    /\ task = [c \in Tasks |-> IdleTask]
    /\ rp = [calls |-> 0, pending |-> {}, creating |-> {}, snaps |-> {}]
    /\ gc = [x \in GTxIds |-> <<>>]
    /\ run = [k \in Runs |-> IdleRun]
    /\ qr = InitQR
    /\ cs \in StartCS

SpecStartup == InitStartup /\ [][NextStartup]_vars

\* ------------------------------------------------------------------------
\* Observations used by the properties
\* ------------------------------------------------------------------------
Returned(c) == task[c].pc = "done"
ReturnsNow(c) == task[c].pc # "done" /\ task'[c].pc = "done"
Quiescent == \A c \in Tasks : task[c].pc \in {"idle", "done"}
Count(rs) == Len(rs["Phoenix"]) + Len(rs["Los Angeles"])
InBoth(rs, id) == HasRide(rs["Phoenix"], id) /\ HasRide(rs["Los Angeles"], id)
LockedBy(rs, tx_id) ==
    \E r \in REGIONAL_APIS : \E d \in Docs(rs[r]) :
        d.transaction_id = tx_id /\ d.locked

\* C1: whenever POST /handoff returns SUCCESS for ride r from S to T, r is
\* absent from S's store and present in T's store with city = T,
\* handoff_status = COMPLETED, locked = false and transaction_id = null.
C1_SuccessMovesRide ==
    [][\A c \in Tasks :
         (ReturnsNow(c) /\ task'[c].status = "SUCCESS") =>
            /\ ~HasRide(rides'[task[c].source], task[c].ride_id)
            /\ \E d \in Docs(rides'[task[c].target]) :
                  /\ d.rideId = task[c].ride_id
                  /\ d.city = task[c].target
                  /\ d.handoff_status = "COMPLETED"
                  /\ ~d.locked
                  /\ d.transaction_id = Null]_vars

\* C2 (I3, conservation): once every handoff has returned, the number of
\* rides in Phoenix plus the number in Los Angeles equals its value before
\* the handoffs.
C2_Conservation == Quiescent => Count(rides) = Count(rides0)

\* C3 (I2, no stuck locks): after POST /handoff has returned SUCCESS or
\* ABORTED for tx_id t, no ride in either region has transaction_id = t and
\* locked = true.
C3_NoStuckLocks ==
    \A c \in Tasks :
        (Returned(c) /\ task[c].status \in {"SUCCESS", "ABORTED"}) =>
            ~LockedBy(rides, TxId(c))

\* C4 (I5, no new duplicates): once the handoffs are terminal, a rideId is
\* present in both regions only if it was present in both before the runs.
C4_NoNewDuplicates ==
    Quiescent => \A id \in RideIds : InBoth(rides, id) => InBoth(rides0, id)

\* C5 (mutual exclusion per ride): of two coordinators that have sent
\* /2pc/prepare DELETE for the same ride to the same participant, at most one
\* holds a COMMIT vote (has been answered COMMIT and has not yet acted on it).
HoldsSourceCommit(c) == task[c].pc = "prepare_target"
C5_MutualExclusion ==
    \A a \in Tasks, b \in Tasks :
        (a # b /\ HoldsSourceCommit(a) /\ HoldsSourceCommit(b)) =>
            ~(task[a].ride_id = task[b].ride_id /\ task[a].source = task[b].source)

\* C6: whenever POST /handoff returns ABORTED for a ride that was present and
\* unlocked in the source region when the handoff started, the ride is still
\* present in the source, absent from the target, with locked = false,
\* transaction_id = null and handoff_status = null.
C6_AbortedRideStays ==
    [][\A c \in Tasks :
         (/\ ReturnsNow(c) /\ task'[c].status = "ABORTED"
          /\ task[c].free0) =>
            /\ ~HasRide(rides'[task[c].target], task[c].ride_id)
            /\ \E d \in Docs(rides'[task[c].source]) : d.rideId = task[c].ride_id
            /\ \A d \in Docs(rides'[task[c].source]) :
                  d.rideId = task[c].ride_id =>
                     /\ ~d.locked
                     /\ d.transaction_id = Null
                     /\ d.handoff_status = Null]_vars

\* C7 (buffered admission): a POST /handoff admitted while the health
\* monitor reports its target unhealthy returns BUFFERED with a fresh tx_id
\* and latency_ms 0 in that very step, without entering the 2PC run (so
\* that nothing is sent) and without changing a ride store, a participant
\* record or the transaction log; and no ride, participant record or log
\* record ever carries a BUFFERED tx_id.
Admitted(c) == task[c].pc = "idle" /\ task'[c].pc # "idle"
C7_BufferedAdmission ==
    /\ [][\A c \in Tasks :
            (Admitted(c) /\ ~health[task'[c].target]) =>
               /\ task'[c].pc = "done"
               /\ task'[c].status = "BUFFERED"
               /\ task'[c].latency_ms = "0.0"
               /\ UNCHANGED <<rides, ptx, txlog>>]_vars
    /\ [](\A c \in Tasks :
            task[c].status = "BUFFERED" =>
               /\ Returned(c)
               /\ \A r \in REGIONAL_APIS : \A d \in Docs(rides[r]) :
                     d.transaction_id # TxId(c)
               /\ \A l \in txlog : l.tx_id # TxId(c)
               /\ \A r \in REGIONAL_APIS : ptx[r][TxId(c)] = <<>>)

\* C7 witness: a request was buffered for an unhealthy target while another
\* request is in its 2PC run.
C7_Witness ==
    \E c \in Tasks, b \in Tasks :
        /\ task[c].status = "BUFFERED" /\ ~health[task[c].target]
        /\ task[c].free0
        /\ task[b].pc = "commit_source"

\* C8 (termination): every POST /handoff with a valid request eventually
\* returns; what it returns is one response, never changed afterwards, that
\* carries a tx_id and a status in {SUCCESS, ABORTED, BUFFERED}.
TerminalStatus == {"SUCCESS", "ABORTED", "BUFFERED"}
FieldsAgree(d) ==
    /\ d.locked <=> d.transaction_id # Null
    /\ d.transaction_id # Null <=> d.handoff_status \in {"PREPARING", "PREPARED"}
C9_TransactionFields ==
    \A r \in REGIONAL_APIS : \A d \in Docs(rides[r]) : FieldsAgree(d)

\* C9 witness: a ride handed over by commit INSERT sits in one region while
\* the other region holds a ride locked by a prepare, after an abort has
\* released a lock.
C9_Witness ==
    /\ \E d \in Docs(rides["Los Angeles"]) : d.handoff_status = "COMPLETED"
    /\ \E d \in Docs(rides["Phoenix"]) : d.locked
    /\ \E x \in TxIds :
          /\ Len(ptx["Phoenix"][x]) > 0
          /\ ptx["Phoenix"][x][1].operation = "DELETE"
          /\ ptx["Phoenix"][x][1].state = "ABORTED"

\* C10 (I4, monotone transaction log): for every tx_id created by
\* begin_transaction and driven by two_phase_handoff, the statuses of the
\* record's history are at all times a prefix of STARTED, PREPARED, COMMITTED
\* or of STARTED, [PREPARED,] ABORTED.
IsPrefix(a, b) == Len(a) <= Len(b) /\ \A i \in 1..Len(a) : a[i] = b[i]
C10_MonotoneLog ==
    \A x \in GTxIds :
        \/ IsPrefix(gc[x], <<"STARTED", "PREPARED", "COMMITTED">>)
        \/ IsPrefix(gc[x], <<"STARTED", "PREPARED", "ABORTED">>)
        \/ IsPrefix(gc[x], <<"STARTED", "ABORTED">>)

\* C11 (forward-only after prepare): once both participants have voted COMMIT
\* for a POST /handoff (the coordinator is in its commit phase), the
\* coordinator sends no /2pc/abort and does not return ABORTED, whatever the
\* outcome of the two commit calls: its next positions are the commit calls
\* and the SUCCESS response only.
InCommitPhase(c) == task[c].pc \in {"commit_source", "commit_target"}
C11_ForwardOnly ==
    [][\A c \in Tasks :
         InCommitPhase(c) =>
            /\ task'[c].pc \in {"commit_source", "commit_target", "done"}
            /\ task'[c].pc = "done" => task'[c].status = "SUCCESS"
            /\ \A r \in REGIONAL_APIS :
                  \A i \in 1..Len(ptx'[r][TxId(c)]) :
                     ptx'[r][TxId(c)][i].state # "ABORTED"]_vars

\* C11 witness: a handoff has returned SUCCESS after both of its commit calls
\* failed (the ride is still in the source and not in the target).
C11_Witness ==
    \E c \in Tasks :
        /\ Returned(c) /\ task[c].status = "SUCCESS"
        /\ HasRide(rides[task[c].source], task[c].ride_id)
        /\ ~HasRide(rides[task[c].target], task[c].ride_id)
        /\ \A i \in 1..Len(ptx[task[c].source][TxId(c)]) :
              ptx[task[c].source][TxId(c)][i].state = "PREPARED"

\* ------------------------------------------------------------------------
\* Participant contracts, stated on the handlers' effect in every state the
\* regional stores can reach under arbitrary clients
\* ------------------------------------------------------------------------
Records(r, x) == {ptx[r][x][i] : i \in 1..Len(ptx[r][x])}

\* C12 (commit fencing): a /2pc/commit DELETE with tx_id t for ride r removes
\* a ride document only if that document's transaction_id equals t.
C12_CommitFencing ==
    \A r \in REGIONAL_APIS, id \in RideIds, x \in TxIds :
        \A d \in Docs(rides[r]) :
            d \notin Docs(CommitDelete(rides[r], id, x)) => d.transaction_id = x

\* C13 (abort releases exactly the transaction's rides): /2pc/abort with
\* tx_id t changes only rides whose transaction_id is t; when it returns no
\* ride of the region carries transaction_id t, and the participant record
\* for t is ABORTED, whether or not a record for t existed.
C13_AbortReleases ==
    \A r \in REGIONAL_APIS, x \in TxIds :
        LET s1 == AbortRides(rides[r], ptx[r], x)
            p1 == AbortRecord(ptx[r], x) IN
        /\ Len(s1) = Len(rides[r])
        /\ \A i \in 1..Len(s1) :
              /\ s1[i] # rides[r][i] => rides[r][i].transaction_id = x
              /\ s1[i].transaction_id # x
        /\ Len(p1[x]) > 0
        /\ \A i \in 1..Len(p1[x]) : p1[x][i].state = "ABORTED"

\* C14 (prepare idempotence): when a /2pc/prepare DELETE for (t, r) has voted
\* COMMIT and the ride is locked for t, a second /2pc/prepare DELETE for
\* (t, r) votes COMMIT again.
C14_PrepareIdempotent ==
    \A r \in REGIONAL_APIS, id \in RideIds, x \in TxIds :
        (/\ \E rec \in Records(r, x) :
               rec.ride_id = id /\ rec.operation = "DELETE" /\ rec.state = "PREPARED"
         /\ PrepareFind(rides[r], id).locked
         /\ PrepareFind(rides[r], id).transaction_id = x) =>
            PrepareVote(PrepareFind(rides[r], id)) = "COMMIT"

\* C15 (commit idempotence): in every state, a /2pc/commit for (t, r)
\* repeated right after the same commit has succeeded leaves the ride store
\* as the first left it: the repeated DELETE removes no ride, the repeated
\* INSERT of the same ride_data adds no second document.
C15_CommitIdempotent ==
    \A r \in REGIONAL_APIS, id \in RideIds, x \in TxIds :
        /\ LET s1 == CommitDelete(rides[r], id, x) IN
           CommitDelete(s1, id, x) = s1
        /\ \A d \in rp.snaps :
              LET s1 == CommitInsert(rides[r], CommitRideData(d, r)) IN
              CommitInsert(s1, CommitRideData(d, r)) = s1

C17_LogAgrees ==
    \A c \in Tasks :
        (Returned(c) /\ task[c].status \in {"ABORTED", "SUCCESS"}) =>
            \E l \in txlog :
                /\ l.tx_id = TxId(c)
                /\ l.status = IF task[c].status = "ABORTED" THEN "ABORTED"
                              ELSE "COMMITTED"

\* C18 (missing ride): a POST /handoff whose ride is absent from the source
\* region when the source is asked to prepare returns ABORTED with the
\* participant's "not found" cause as reason, and writes nothing at the
\* target (no prepare record, no ride).
C18_MissingRide ==
    [][\A c \in Tasks :
         (/\ task[c].pc = "prepare_source"
          /\ task'[c].pc # "prepare_source"
          /\ ~HasRide(rides[task[c].source], task[c].ride_id)) =>
            /\ task'[c].pc = "done"
            /\ task'[c].status = "ABORTED"
            /\ task'[c].reason = PrepareReason(NoRide)
            /\ ptx'[task[c].target][TxId(c)] = <<>>
            /\ rides'[task[c].target] = rides[task[c].target]]_vars

\* C19 (I6, GLOBAL convergence): whenever both watchers have applied every
\* event of their change feed (none is pending and none was lost to a failed
\* write), the ride documents of the GLOBAL store are exactly those of the
\* Phoenix store together with those of the Los Angeles store, whatever
\* inserts, updates, deletes and handoffs came before.
Drained == \A r \in REGIONAL_APIS : cs.feed[r] = <<>>
C19_GlobalConvergence ==
    (Drained /\ ~cs.dropped) =>
        cs.global = cs.store["Phoenix"] \cup cs.store["Los Angeles"]

\* C19 witness: the feeds are drained after the initial ride was updated and
\* handed off to Los Angeles and a further ride was created.
C19_Witness ==
    /\ Drained /\ ~cs.dropped
    /\ cs.next_id = 3
    /\ \E d \in cs.store["Los Angeles"] : d.version > 0 /\ d._id > 1
    /\ \A d \in cs.store["Phoenix"] : d._id # 1

\* C20 (recovery of a crash after source prepare): when the coordinator has
\* crashed after the source voted COMMIT and before the target prepare, then
\* once every request has ended (returned or crashed) the ride in the source
\* region is back to locked = false, handoff_status = null,
\* transaction_id = null, and |PHX| + |LA| is unchanged.
C20_CrashRecovery ==
    \A c \in Tasks :
        (/\ task[c].pc = "crashed" /\ task[c].crashed_at = "prepare_target"
         /\ \A b \in Tasks : task[b].pc \in {"done", "crashed"}) =>
            /\ \A d \in Docs(rides[task[c].source]) :
                  d.rideId = task[c].ride_id =>
                     /\ ~d.locked
                     /\ d.handoff_status = Null
                     /\ d.transaction_id = Null
            /\ Count(rides) = Count(rides0)

\* C21 (recovery replays commit): a transaction whose participants both
\* voted COMMIT (its handoff returned SUCCESS, or its coordinator crashed in
\* the commit phase) is in the end committed at both: once every request has
\* ended, and no other request got as far as the commit phase, the ride is
\* absent from the source and present at the target.
BothVotedCommit(c) ==
    \/ task[c].pc = "done" /\ task[c].status = "SUCCESS"
    \/ task[c].pc = "crashed" /\ task[c].crashed_at \in {"commit_source", "commit_target"}
C21_RecoveryReplaysCommit ==
    \A c \in Tasks :
        (/\ \A b \in Tasks : task[b].pc \in {"done", "crashed"}
         /\ BothVotedCommit(c)
         /\ \A b \in Tasks : b # c => ~BothVotedCommit(b)) =>
            /\ ~HasRide(rides[task[c].source], task[c].ride_id)
            /\ HasRide(rides[task[c].target], task[c].ride_id)

\* C22 (global-live search): the result of a global-live search is the first
\* `limit` rides of all regions' answers taken together and ordered by
\* timestamp descending: it has min(limit, total) rides, every ride in it is
\* no older than the ride after it, it holds no ride more often than the
\* answers do, and no ride left out is newer than a ride in it.
Occurrences(s, x) == Cardinality({i \in 1..Len(s) : s[i] = x})
SameRegion(c) == task[c].pc # "idle" /\ task[c].source = task[c].target
Carries(tx_id) ==
    \/ LockedBy(rides, tx_id)
    \/ \E r \in REGIONAL_APIS : ptx[r][tx_id] # <<>>
    \/ \E l \in txlog : l.tx_id = tx_id
RunsReturned == \A k \in Runs : run[k].pc \in {"idle", "done"}
C24_HandoffConservation == RunsReturned => Count(rides) = Count(rides0)

\* C25 (no stuck prepared rides): once every two_phase_handoff run has
\* returned, no ride in Phoenix or Los Angeles has handoff_status PREPARED
\* and locked = true.
C25_NoStuckPrepared ==
    RunsReturned =>
        \A r \in REGIONAL_APIS : \A d \in Docs(rides[r]) :
            ~(d.handoff_status = "PREPARED" /\ d.locked)

\* C26 (no new duplicates): once every two_phase_handoff run has returned,
\* every rideId present in both Phoenix and Los Angeles was present in both
\* before the runs.
C26_NoNewDuplicates ==
    RunsReturned =>
        \A id \in {d.rideId : d \in Docs(rides["Phoenix"])} :
            InBoth(rides, id) => InBoth(rides0, id)

\* C27 (health is read at admission only): a request admitted with a healthy
\* target is never answered BUFFERED, whatever the health monitor records
\* while the run is in flight: a request in flight has no BUFFERED status,
\* its next step never waits for a health flag, no step of a request past
\* admission sets BUFFERED, and it returns SUCCESS or ABORTED.
InFlight(c) == task[c].pc \notin {"idle", "done"}
C28_RideIdUnique ==
    \A r \in REGIONAL_APIS : \A i \in 1..Len(rides[r]) : \A j \in 1..Len(rides[r]) :
        rides[r][i].rideId = rides[r][j].rideId => i = j

\* C29 (phase ordering): the coordinator sends prepare to the target only
\* after the source has voted COMMIT, sends a commit only after both
\* participants have voted COMMIT, and sends no commit for a transaction
\* that it aborts. A participant has voted COMMIT for a transaction exactly
\* when it holds a record of it.
VotedCommit(r, c) == ptx[r][TxId(c)] # <<>>
CommitReceived(r, c) == \E t \in Records(r, TxId(c)) : t.state = "COMMITTED"
C29_PhaseOrdering ==
    \A c \in Tasks : task[c].pc # "idle" =>
        LET t == task[c] IN
        /\ (t.pc = "prepare_target" \/ VotedCommit(t.target, c)) =>
               VotedCommit(t.source, c)
        /\ (\/ t.pc \in {"commit_source", "commit_target"}
            \/ t.status = "SUCCESS"
            \/ CommitReceived(t.source, c) \/ CommitReceived(t.target, c)) =>
               VotedCommit(t.source, c) /\ VotedCommit(t.target, c)
        /\ (t.pc \in {"abort_source", "abort_target"} \/ t.status = "ABORTED") =>
               ~CommitReceived(t.source, c) /\ ~CommitReceived(t.target, c)

\* C29 witness: one run committed at both participants, and a later run got
\* the source's COMMIT vote, no vote from the target, and aborted.
C29_Witness ==
    \E c \in Tasks, b \in Tasks :
        /\ task[c].status = "SUCCESS"
        /\ CommitReceived(task[c].source, c) /\ CommitReceived(task[c].target, c)
        /\ task[b].pc = "done" /\ task[b].status = "ABORTED"
        /\ VotedCommit(task[b].source, b) /\ ~VotedCommit(task[b].target, b)

\* C30 (write-ahead begin): in every POST /handoff run that is not BUFFERED,
\* the transaction log holds a record of the tx_id before the first prepare
\* is sent to the source: a run that has sent it has a log record.
FirstPrepareSent(c) ==
    /\ task[c].pc \notin {"idle", "prepare_source"}
    /\ task[c].status # "BUFFERED"
C30_WriteAheadBegin ==
    \A c \in Tasks :
        FirstPrepareSent(c) => \E l \in txlog : l.tx_id = TxId(c)

\* C31 (target refusal rollback): when the target prepare does not yield vote
\* COMMIT, the coordinator aborts the transaction at the source and at the
\* target, also when the abort call to the source fails, and returns ABORTED
\* with the source ride unlocked: a run returned ABORTED for a target
\* refusal leaves no ride of the source locked under its tx_id.
TargetRefused(c) ==
    /\ Returned(c) /\ task[c].status = "ABORTED"
    /\ task[c].reason = "Target region aborted transaction"
LockedAt(r, tx_id) == \E d \in Docs(rides[r]) : d.locked /\ d.transaction_id = tx_id
C31_TargetRefusalRollback ==
    \A c \in Tasks : TargetRefused(c) => ~LockedAt(task[c].source, TxId(c))

\* C32 (rollback on prepare transport failure): when the prepare call to the
\* source fails in transport after the participant may have locked the ride,
\* the coordinator issues /2pc/abort before it returns ABORTED: a run whose
\* source prepare was delivered does not return straight from it, and a run
\* returned ABORTED for the source leaves no ride locked under its tx_id.
SourceRefused(c) ==
    /\ Returned(c) /\ task[c].status = "ABORTED"
    /\ task[c].reason = "Source region aborted transaction"
C32_PrepareFailureRollback ==
    /\ [](\A c \in Tasks : SourceRefused(c) => ~LockedAt(task[c].source, TxId(c)))
    /\ [][\A c \in Tasks :
            task[c].pc = "prepare_source_lock" =>
                task'[c].pc \in {"prepare_source_lock", "prepare_target", "abort_source"}]_vars

\* C33 (monotone participant record): under any sequence of /2pc/prepare,
\* /2pc/commit and /2pc/abort calls, no participant record moves from
\* COMMITTED to ABORTED or from ABORTED to COMMITTED.
Downgrade(old, new) ==
    \/ old = "COMMITTED" /\ new = "ABORTED"
    \/ old = "ABORTED" /\ new = "COMMITTED"
C33_MonotoneRecord ==
    [][\A r \in REGIONAL_APIS, x \in TxIds :
          \A i \in 1..Len(ptx[r][x]) :
              i <= Len(ptx'[r][x]) =>
                  ~Downgrade(ptx[r][x][i].state, ptx'[r][x][i].state)]_vars

\* C34 (scope routing): a local search without a city fails with 400 and
\* contacts no participant; a local search with a city contacts exactly that
\* region's participant and returns its result; a global-fast search
\* contacts no participant and reads only GLOBAL; a global-live search
\* contacts every participant. Only a global-fast search reads GLOBAL, and
\* no search ever contacts a participant outside its scope.
C34_ScopeRouting ==
    /\ qr.scope = "local" /\ qr.city = Null =>
          qr.pc = "done" /\ qr.status = "400" /\ qr.contacted = {}
    /\ qr.scope = "local" /\ qr.city # Null =>
          /\ qr.contacted \subseteq {qr.city}
          /\ qr.pc = "done" =>
                /\ qr.contacted = {qr.city} /\ qr.status = "200"
                /\ qr.result = qr.results[qr.city]
    /\ qr.scope = "global-fast" =>
          /\ qr.contacted = {}
          /\ qr.pc = "done" => qr.global_read /\ qr.status = "200"
    /\ qr.scope = "global-live" /\ qr.pc = "done" =>
          qr.contacted = REGIONAL_APIS /\ qr.status = "200"
    /\ qr.global_read => qr.scope = "global-fast"

\* C34 witness: a local search for Los Angeles returned the two rides that
\* Los Angeles answered, having contacted Los Angeles only.
C34_Witness ==
    /\ qr.pc = "done" /\ qr.scope = "local" /\ qr.city = "Los Angeles"
    /\ qr.contacted = {"Los Angeles"}
    /\ Len(qr.result) = 2 /\ qr.result = qr.results["Los Angeles"]

\* C35 (global-live partial failure): when the fetch from one region fails,
\* a global-live search still answers 200 with exactly the rides of the
\* region that answered, ordered by timestamp descending and cut to limit.
C35_PartialFailure ==
    \A r \in REGIONAL_APIS, q \in REGIONAL_APIS :
        (/\ qr.scope = "global-live" /\ qr.failed = {r} /\ q # r
         /\ qr.results[q] # Pending) =>
            /\ qr.pc = "done" =>
                  LET got == qr.results[q]
                      res == qr.result IN
                  /\ qr.status = "200"
                  /\ Len(res) = IF Len(got) < qr.limit THEN Len(got) ELSE qr.limit
                  /\ \A i \in 1..Len(res) : \A j \in 1..Len(res) :
                        i < j => res[i].timestamp >= res[j].timestamp
                  /\ \A x \in QRides(q) :
                        /\ Occurrences(res, x) <= Occurrences(got, x)
                        /\ Occurrences(res, x) < Occurrences(got, x) =>
                              \A i \in 1..Len(res) : res[i].timestamp >= x.timestamp
                  /\ \A i \in 1..Len(res) : res[i] \in QRides(q)
            /\ qr.status # "500"

\* C35 witness: the Phoenix fetch failed, Los Angeles answered two rides of
\* different age in ascending order, and the search returned them, newest
\* first.
C35_Witness ==
    /\ qr.pc = "done" /\ qr.scope = "global-live" /\ qr.status = "200"
    /\ qr.failed = {"Phoenix"}
    /\ Len(qr.results["Los Angeles"]) = 2
    /\ qr.results["Los Angeles"][1].timestamp < qr.results["Los Angeles"][2].timestamp
    /\ qr.result = <<qr.results["Los Angeles"][2], qr.results["Los Angeles"][1]>>

\* C36 (replicator restart): after a subscription-level error on a region's
\* change stream the watcher reconnects, so that the regional changes made
\* after the error are applied to GLOBAL: once the replicator has nothing
\* left to do and no event was lost to a failed write, GLOBAL holds exactly
\* the rides of the two regions, also when a stream has had an error.
AtRest == \A r \in REGIONAL_APIS : ~ENABLED ReplicatorStep(r)
C36_ReplicatorRestart ==
    \A r \in REGIONAL_APIS :
        (cs.watcher[r] = "stopped" /\ AtRest /\ ~cs.dropped) =>
            cs.global = cs.store["Phoenix"] \cup cs.store["Los Angeles"]

\* C39 (no replication gap at start-up): every regional write made after
\* main() has started reaches GLOBAL, whether initial_sync copied the rides
\* or was skipped: once both streams are open, the replicator has nothing
\* left to do and no event was lost to a failed write, GLOBAL holds exactly
\* the rides of the two regions.
C39_NoStartupGap ==
    (/\ \A r \in REGIONAL_APIS : cs.watcher[r] = "active"
     /\ AtRest /\ ~cs.dropped) =>
        cs.global = cs.store["Phoenix"] \cup cs.store["Los Angeles"]

\* C37 (no lost update across a handoff): an update that succeeds at the
\* source between the source's COMMIT vote and the commit is carried to the
\* target: the ride that the source commit deletes has the field values of
\* the ride data that the target commit then inserts.
C37_NoLostUpdate ==
    [][\A c \in Tasks :
          LET t == task[c]
              last == PrepareFind(rides[t.source], t.ride_id) IN
          (/\ t.pc = "commit_source" /\ task'[c].pc = "commit_target"
           /\ last # NoRide
           /\ ~HasRide(rides'[t.source], t.ride_id)) =>
              last.status = CommitRideData(t.ride_data, t.target).status]_vars

\* C38 (prepare is all-or-nothing): a /2pc/prepare DELETE that ends with
\* vote ABORT after its read (no participant record was written) has left
\* the rides of its region as they were, and no ride of the region carries
\* its tx_id.
C38_PrepareAllOrNothing ==
    [][\A call \in rp.pending :
          (call \notin rp'.pending /\ ptx' = ptx) =>
              /\ rides'[call.region] = rides[call.region]
              /\ \A d \in Docs(rides'[call.region]) :
                    d.transaction_id # call.tx_id]_vars

\* The parts of C40: a run that has passed the Phoenix PREPARE and is not
\* rolling back; the documents of a ride in the two regions.
PassedPrepare(k) ==
    run[k].pc \in {"insert_la", "mark_prepared", "delete_phx", "update_la",
                   "mark_committed"}
Copies(id) ==
    Cardinality({i \in 1..Len(rides["Phoenix"]) : rides["Phoenix"][i].rideId = id})
    + Cardinality({i \in 1..Len(rides["Los Angeles"]) :
                      rides["Los Angeles"][i].rideId = id})
C40_OnePrepareAtATime ==
    \A k \in Runs, j \in Runs :
        (k # j /\ PassedPrepare(k) /\ PassedPrepare(j)) =>
            run[k].ride_id # run[j].ride_id
C40_RollbackOwnTxOnly ==
    [][\A k \in Runs :
          (run[k].pc \in {"rollback_phx", "rollback_la"} /\ run'[k] # run[k]) =>
              \A r \in REGIONAL_APIS : \A d \in Docs(rides[r]) :
                  (d.transaction_id # Null /\ d.transaction_id # run[k].tx_id) =>
                      Occurrences(rides'[r], d) = Occurrences(rides[r], d)]_vars
C40_ExactlyOneRegion ==
    RunsReturned =>
        \A id \in {d.rideId : d \in Docs(rides0["Phoenix"])} : Copies(id) = 1

\* C40 (concurrent two_phase_handoff runs on one ride): at most one run at a
\* time has passed the Phoenix PREPARE for a ride; a rollback step of a run
\* changes or removes no document tagged with another run's tx_id; and once
\* every run has returned, each ride is in exactly one region, once.
C40_ConcurrentRuns ==
    /\ []C40_OnePrepareAtATime
    /\ C40_RollbackOwnTxOnly
    /\ []C40_ExactlyOneRegion
====
